---- MODULE Spec2Model ----
(***************************************************************************)
(* Model of the pipeline engine of stepped_job: a SteppedJob owning an     *)
(* ordered list of Step objects chained by queues, one worker thread per   *)
(* started Step, the caller's thread (add_step, start, wait, kill) and the *)
(* two Watchdog threads that call update_status on the steps and on the    *)
(* pipeline.                                                               *)
(*                                                                         *)
(* A payload is a number: Kill (the None sentinel) is 0 and r > 0 is the   *)
(* list of files written by the run number r of the producing step.        *)
(***************************************************************************)
EXTENDS Integers, Sequences, FiniteSets, TLC

\* ------------------------------------------------------------------ bounds
MaxStages == 3
MaxRuns == 3
MaxOrphans == 1
\* a start() finds a thread of its steps alive, and leaves it behind, only
\* after at most this many earlier starts, in a pipeline of at most this
\* many steps
MaxOrphanRuns == 1
MaxOrphanSteps == 2
\* the steps added plus the runs started, together
MaxSize == 5
\* the calls of create_dir on one path
MaxCalls == 3
\* the entries of the working directory of a step
MaxFiles == 2
\* the registry objects, the jobs constructed and the calls for a default
\* registry
MaxRegistries == 4
MaxJobs == 3
MaxObtain == 4
\* the jobs constructed in a registry whose Watchdog runs
MaxWatched == 3
\* the single Jobs of a registry and the threads of Job._execute
MaxSingle == 2
MaxThreads == 2
\* the length of the name of such an entry
MaxFileLen == 3
\* the length of a data_regex
MaxRegexLen == 2
\* the entries a directory holds before the first call
MaxEntries == 2
\* the length of the name of such an entry
MaxNameLen == 2

Stages == 1..MaxStages
Wid == 1..(MaxStages + MaxOrphans)

\* --------------------------------------------------------------- constants
\* StatusCode
new == "new"
running == "running"
terminated == "terminated"
killed == "killed"
StatusCode == {new, running, terminated, killed}

\* the "kill" sentinel put on a queue: None
Kill == 0
\* no payload taken (or published) yet
NoData == -1

\* the caller's last call returned without raising
NoError == "none"
\* the exceptions a call raises to the caller
Errors == {"RuntimeError", "LookupError", "IndexError"}

VARIABLES
    steps,             \* SteppedJob.steps: number of registered steps
    status,            \* SteppedJob._status
    kill_event,        \* the threading.Event shared by the pipeline and its steps
    step_status,       \* Step._status, per step
    terminated_event,  \* Step._terminated_event, per step
    task,              \* Step._task, per step: 0 is None, else a worker id
    queue,             \* Step._queue, per step: sequence of payloads
    workers,           \* the threads running Step._execute
    mpc,               \* position of the caller's thread
    mi,                \* loop index of the caller's thread
    first,             \* argument "first" of the SteppedJob.start in progress
    runs,              \* number of calls of SteppedJob.start so far
    names,             \* Step.name of the registered steps, in order
    jid,               \* Step.jid of the registered steps, in order
    raised,            \* the exception the caller's last call ended with
    kchild,            \* the kill() in progress was called with a child running
    kill_seen,         \* the kill event has been set since the pipeline exists
    prev_ok,           \* the last start() followed a run that every step ended
    isdir,             \* create_dir: the directory "path" exists
    listdir,           \* create_dir: os.listdir(path), a set of names
    created,           \* create_dir: what each call returned, in order
    odir,              \* Step._execute: os.listdir(self._odir), a set of names
    data_regex,        \* Step.data_regex
    output,            \* Step._execute: the payload put on the outbound queue
    cm_instance,       \* ContextManager.__instance: 0 is None, else an object
    cm_initialized,    \* ContextManager.__initialized
    jm_instance,       \* JobManager.__instance: 0 is None, else an object
    registries,        \* the registry objects: the list of jobs of each
    jobs,              \* the jobs constructed: kind, registry given, parent, steps
    handles,           \* the calls for the default registry and what they returned
    job,               \* the single Jobs: _status, events and _task of each
    thread,            \* the threads running Job._execute
    caller,            \* position of the thread that calls the Jobs
    watchdog,          \* the Watchdog of the registry of the Jobs
    history,           \* per Job, since its last start: killed while alive, joined
    kill_set,          \* the kill events that are set, among those of jobs
    acted,             \* the job whose kill() or failing child set an event last
    job_queue,         \* Watchdog._job_queue: the jobs watched, in order
    monitor,           \* the Watchdog thread: position, job in hand, jlst
    built,             \* per job: not constructed, registered, or complete
    stop_event,        \* Watchdog._stop_event
    pass               \* the current update pass: jobs watched before it, calls

\* the pipeline, its steps, threads and caller
pipeline == <<steps, status, kill_event, step_status, terminated_event, task, queue,
              workers, mpc, mi, first, runs, names, jid, raised, kchild, kill_seen,
              prev_ok>>

\* the directory that utils.create_dir works on
dir_vars == <<isdir, listdir, created>>

\* the working directory of one step and what the step publishes from it
out_vars == <<odir, data_regex, output>>

\* the registries, the two singletons and the jobs registered
reg_vars == <<cm_instance, cm_initialized, jm_instance, registries, jobs, handles>>

\* the single Jobs of one registry, their threads and their monitor
job_vars == <<job, thread, caller, watchdog, history>>

\* the kill events of the jobs constructed
iso_vars == <<kill_set, acted>>

\* a Watchdog, its thread and the jobs under construction
watch_vars == <<job_queue, monitor, built, stop_event, pass>>

\* what no operation of the pipeline touches
outside == <<dir_vars, out_vars, reg_vars, job_vars, iso_vars, watch_vars>>

vars == <<pipeline, outside>>

\* a free worker slot
Blank == [stage |-> 0, pc |-> "dead", data |-> NoData, child |-> "none",
          out |-> NoData, back |-> FALSE, run |-> 0]

\* Thread.is_alive
is_alive(w) == workers[w].pc # "dead"

\* the worker w runs, and is not the thread its step holds in _task
Orphan(w) == workers[w].stage # 0 /\ task[workers[w].stage] # w

FreeSlots == {w \in Wid : workers[w].stage = 0}

MinOf(S) == CHOOSE x \in S : \A y \in S : x <= y

MaxOf(S) == CHOOSE x \in S : \A y \in S : y <= x

\* the state of a worker that has returned from (or died in) _execute
Exited(w, rec) ==
    IF task[rec.stage] = w THEN [rec EXCEPT !.pc = "dead"] ELSE Blank

TypeOK ==
    /\ steps \in 0..MaxStages
    /\ status \in StatusCode
    /\ kill_event \in BOOLEAN
    /\ step_status \in [Stages -> StatusCode]
    /\ terminated_event \in [Stages -> BOOLEAN]
    /\ task \in [Stages -> {0} \cup Wid]
    /\ \A k \in Stages : queue[k] \in Seq(0..MaxRuns)
    /\ \A w \in Wid :
          /\ workers[w].stage \in 0..MaxStages
          /\ workers[w].pc \in {"get", "chk1", "poll", "chk2", "putback", "dead"}
          /\ workers[w].data \in NoData..MaxRuns
          /\ workers[w].child \in {"none", "running", "ok", "fail", "killed"}
          /\ workers[w].out \in NoData..MaxRuns
          /\ workers[w].back \in BOOLEAN
          /\ workers[w].run \in 0..MaxRuns
    /\ mpc \in {"idle", "st_join", "st_reset", "st_clear", "st_cget",
                "st_s1", "st_s2", "st_s3", "join", "kill_join",
                "del_kill", "del_wait", "closed"}
    /\ mi \in 0..(MaxStages + 1)
    /\ first \in 0..MaxStages
    /\ runs \in 0..MaxRuns
    /\ names \in Seq(1..MaxStages)
    /\ jid \in Seq(0..MaxStages)
    /\ Len(names) = steps
    /\ Len(jid) = steps
    /\ raised \in {NoError} \cup Errors
    /\ kchild \in BOOLEAN
    /\ kill_seen \in BOOLEAN
    /\ prev_ok \in BOOLEAN

\* SteppedJob.__init__: a new pipeline without steps
SteppedJob_init ==
    /\ steps = 0
    /\ status = new
    /\ kill_event = FALSE
    /\ step_status = [k \in Stages |-> new]
    /\ terminated_event = [k \in Stages |-> FALSE]
    /\ task = [k \in Stages |-> 0]
    /\ queue = [k \in Stages |-> <<>>]
    /\ workers = [w \in Wid |-> Blank]
    /\ mpc = "idle"
    /\ mi = 0
    /\ first = 0
    /\ runs = 0
    /\ names = <<>>
    /\ jid = <<>>
    /\ raised = NoError
    /\ kchild = FALSE
    /\ kill_seen = FALSE
    /\ prev_ok = FALSE

\* a name that no directory entry has: the empty string
NoName == <<>>

\* no call of create_dir yet, on a path that does not exist
NoDir ==
    /\ isdir = FALSE
    /\ listdir = {}
    /\ created = <<>>

\* no step has published from its working directory
NoOutput ==
    /\ odir = {}
    /\ data_regex = <<>>
    /\ output = {NoName}

\* no registry, no singleton, no job constructed
NoRegistry ==
    /\ cm_instance = 0
    /\ cm_initialized = FALSE
    /\ jm_instance = 0
    /\ registries = <<>>
    /\ jobs = <<>>
    /\ handles = <<>>

Single == 1..MaxSingle
Tid == 1..MaxThreads

\* Job.__init__: status new, both events clear, no task
NewJob == [status |-> new, kill_event |-> FALSE, terminated_event |-> FALSE,
           task |-> 0]

\* a free thread slot
NoThread == [job |-> 0, pc |-> "dead", child |-> "none"]

\* nothing was called on the Job yet
NoHistory == [killed |-> FALSE, joined |-> FALSE, concurrent |-> FALSE]

\* a registry with its Jobs just constructed and its Watchdog running
Job_init ==
    /\ job = [j \in Single |-> NewJob]
    /\ thread = [t \in Tid |-> NoThread]
    /\ caller = [pc |-> "idle", j |-> 0]
    /\ watchdog = "running"
    /\ history = [j \in Single |-> NoHistory]

Watched == 1..MaxWatched

\* the Watchdog thread between two passes
Idle == [pc |-> "loop", j |-> 0, jlst |-> <<>>, last |-> FALSE]

\* no update pass has begun
NoPass == [before |-> {}, calls |-> [j \in Watched |-> 0]]

\* Watchdog.__init__: an empty queue, the stop event clear, the thread started;
\* no job constructed yet
Watchdog_init ==
    /\ job_queue = <<>>
    /\ monitor = Idle
    /\ built = [j \in Watched |-> "no"]
    /\ stop_event = FALSE
    /\ pass = NoPass

\* no kill event is set
NoKill ==
    /\ kill_set = {}
    /\ acted = 0

Init ==
    /\ SteppedJob_init
    /\ NoDir
    /\ NoOutput
    /\ NoRegistry
    /\ Job_init
    /\ NoKill
    /\ Watchdog_init

\* ------------------------------------------------------------ the caller

\* a register that forgets to add one to the greatest id
register_same(n) ==
    IF n > 0 THEN MaxOf(0..(n - 1)) ELSE 0

\* JobRegistry.register: the id of a job registered when the registry
\* already holds n jobs
register(n) ==
    IF n > 0 THEN MaxOf(0..(n - 1)) + 1 ELSE 0

\* Step.__init__ with the pipeline as parent: the step is wired to the queue
\* of the last step and registered in SteppedJob.steps
Step_init(n) ==
    /\ steps < MaxStages
    /\ steps + runs < MaxSize
    /\ steps' = steps + 1
    /\ names' = Append(names, n)
    /\ jid' = Append(jid, register(steps))
    /\ step_status' = [step_status EXCEPT ![steps + 1] = new]

\* a test of the name that only looks at the last step
NameInUseLast(n) == steps > 0 /\ names[steps] = n

\* SteppedJob.add_step, line 561: some step has this name
NameInUse(n) == \E k \in 1..steps : names[k] = n

\* SteppedJob.add_step with the name n: a name in use, or a new one
add_step ==
    /\ mpc = "idle"
    /\ \E n \in 1..(steps + 1) :
          IF NameInUse(n)
             THEN /\ raised' = "RuntimeError"
                  /\ UNCHANGED <<steps, names, jid, step_status>>
             ELSE /\ raised' = NoError
                  /\ Step_init(n)
    /\ UNCHANGED <<status, kill_event, terminated_event, task, queue, workers, mpc, mi,
                   first, runs, kchild, kill_seen, prev_ok, outside>>

\* Step(name, ..., parent): a step constructed by the caller, not by add_step
NewStep ==
    /\ mpc = "idle"
    /\ \E n \in 1..(steps + 1) : Step_init(n)
    /\ raised' = NoError
    /\ UNCHANGED <<status, kill_event, terminated_event, task, queue, workers, mpc, mi,
                   first, runs, kchild, kill_seen, prev_ok, outside>>

\* Job.wait on step k returns: no task, or the task is over
Joined(k) == IF task[k] = 0 THEN TRUE ELSE ~is_alive(task[k])

\* the live workers that a start from step f would leave behind
WouldOrphan(f) ==
    {k \in f..steps : ~Joined(k)}

Orphans == {w \in Wid : Orphan(w)}

\* a run is over in which every step terminated: every thread has returned
\* and the terminated event of every step is set
RunTerminated ==
    /\ steps > 0
    /\ \A w \in Wid : ~is_alive(w)
    /\ \A k \in 1..steps : task[k] # 0 /\ terminated_event[k]

\* SteppedJob.start, lines 578-581: a running pipeline is killed first.
\* The argument is the position of a step (its index, or its name), or 0 for
\* a name that no step has; without steps, 1 is the default index.
StartCall ==
    /\ mpc = "idle"
    /\ runs < MaxRuns
    /\ steps + runs < MaxSize
    /\ \E f \in 0..MaxStages :
          /\ IF steps = 0 THEN f <= 1 ELSE f <= steps
          /\ IF status = running \/ f = 0 THEN TRUE
                ELSE /\ WouldOrphan(f) # {} =>
                          runs <= MaxOrphanRuns /\ steps <= MaxOrphanSteps
                     /\ Cardinality(Orphans) + Cardinality(WouldOrphan(f)) <= MaxOrphans
          /\ first' = f
    /\ runs' = runs + 1
    /\ raised' = NoError
    /\ prev_ok' = RunTerminated
    /\ IF status = running
          THEN /\ kill_event' = TRUE
               /\ kill_seen' = TRUE
               /\ mpc' = "st_join"
               /\ mi' = 1
          ELSE /\ mpc' = "st_reset"
               /\ UNCHANGED <<kill_event, kill_seen, mi>>
    /\ UNCHANGED <<kchild, names, jid, steps, status, step_status, terminated_event,
                   task, queue, workers, outside>>

\* SteppedJob.wait inside the kill() of SteppedJob.start
StartJoin ==
    /\ mpc = "st_join"
    /\ IF mi > steps
          THEN /\ mpc' = "st_reset"
               /\ UNCHANGED mi
          ELSE /\ Joined(mi)
               /\ mi' = mi + 1
               /\ UNCHANGED mpc
    /\ UNCHANGED <<kill_seen, kchild, names, jid, raised, steps, status, kill_event,
                   step_status, terminated_event, task, queue, workers, first, runs,
                   prev_ok, outside>>

\* SteppedJob.start, lines 583-605: status, events, resolution of "first"
StartReset ==
    /\ mpc = "st_reset"
    /\ status' = running
    /\ kill_event' = FALSE
    /\ IF first = 0
          THEN \* no step has the name
               /\ raised' = "LookupError"
               /\ mpc' = "idle"
               /\ UNCHANGED mi
          ELSE IF steps = 0
          THEN \* self.steps[i] raises IndexError
               /\ raised' = "IndexError"
               /\ mpc' = "idle"
               /\ UNCHANGED mi
          ELSE /\ mpc' = "st_clear"
               /\ mi' = steps
               /\ UNCHANGED raised
    /\ UNCHANGED <<kill_seen, kchild, names, jid, steps, step_status, terminated_event,
                   task, queue, workers, first, runs, prev_ok, outside>>

\* a loop that also clears the first step started, when it has an inbound
\* queue
ClearDone_from_first(i, f) == i < f \/ i = 1

\* SteppedJob.start, line 607: reversed(self.steps[i + 1:]) is exhausted
\* when the loop, coming from the last step, is at step i of a start from
\* step f
ClearDone(i, f) == i <= f

\* Step.clear_input_data on step mi, lines 480-481: the test of empty()
StartClear ==
    /\ mpc = "st_clear"
    /\ IF ClearDone(mi, first)
          THEN /\ mpc' = "st_s1"
               /\ mi' = first
          ELSE IF queue[mi - 1] = <<>>
                  THEN /\ mi' = mi - 1
                       /\ UNCHANGED mpc
                  ELSE /\ mpc' = "st_cget"
                       /\ UNCHANGED mi
    /\ UNCHANGED <<kill_seen, kchild, names, jid, raised, steps, status, kill_event,
                   step_status, terminated_event, task, queue, workers, first, runs,
                   prev_ok, outside>>

\* Step.clear_input_data on step mi, line 482: the blocking get()
StartClearGet ==
    /\ mpc = "st_cget"
    /\ queue[mi - 1] # <<>>
    /\ queue' = [queue EXCEPT ![mi - 1] = Tail(@)]
    /\ mi' = mi - 1
    /\ mpc' = "st_clear"
    /\ UNCHANGED <<kill_seen, kchild, names, jid, raised, steps, status, kill_event,
                   step_status, terminated_event, task, workers, first, runs, prev_ok, outside>>

\* Job.start on step mi, line 306
StepStartStatus ==
    /\ mpc = "st_s1"
    /\ step_status' = [step_status EXCEPT ![mi] = running]
    /\ mpc' = "st_s2"
    /\ UNCHANGED <<kill_seen, kchild, names, jid, raised, steps, status, kill_event,
                   terminated_event, task, queue, workers, mi, first, runs, prev_ok, outside>>

\* Job.start on step mi, line 308: the event is the one of the pipeline
StepStartClearKill ==
    /\ mpc = "st_s2"
    /\ kill_event' = FALSE
    /\ mpc' = "st_s3"
    /\ UNCHANGED <<kill_seen, kchild, names, jid, raised, steps, status, step_status,
                   terminated_event, task, queue, workers, mi, first, runs, prev_ok, outside>>

\* the slot of the thread that Job.start creates for step k
NewSlot(k) ==
    IF task[k] # 0 /\ Joined(k) THEN task[k] ELSE MinOf(FreeSlots)

\* Step._create_thread: the state of a thread that has not run yet
NewWorker(k) ==
    [stage |-> k, pc |-> IF k > 1 THEN "get" ELSE "chk1", data |-> NoData,
     child |-> "none", out |-> NoData, back |-> FALSE, run |-> runs]

\* Job.start on step mi, lines 309-313
StepStartThread ==
    /\ mpc = "st_s3"
    /\ terminated_event' = [terminated_event EXCEPT ![mi] = FALSE]
    /\ LET w == NewSlot(mi) IN
          /\ task' = [task EXCEPT ![mi] = w]
          /\ workers' = [workers EXCEPT ![w] = NewWorker(mi)]
    /\ IF mi < steps
          THEN /\ mi' = mi + 1
               /\ mpc' = "st_s1"
          ELSE /\ mpc' = "idle"
               /\ UNCHANGED mi
    /\ UNCHANGED <<kill_seen, kchild, names, jid, raised, steps, status, kill_event,
                   step_status, queue, first, runs, prev_ok, outside>>

\* the child process of some step of the pipeline has not exited
ChildRunning ==
    \E k \in 1..steps : task[k] # 0 /\ workers[task[k]].child = "running"

\* JobBase.kill: set the event, then wait
kill ==
    /\ mpc = "idle"
    /\ kill_event' = TRUE
    /\ mpc' = "kill_join"
    /\ mi' = 1
    /\ raised' = NoError
    /\ kchild' = ChildRunning
    /\ kill_seen' = TRUE
    /\ UNCHANGED <<names, jid, steps, status, step_status, terminated_event, task,
                   queue, workers, first, runs, prev_ok, outside>>

\* SteppedJob.wait is called
wait ==
    /\ mpc = "idle"
    /\ mpc' = "join"
    /\ mi' = 1
    /\ raised' = NoError
    /\ UNCHANGED <<kill_seen, kchild, names, jid, steps, status, kill_event,
                   step_status, terminated_event, task, queue, workers, first, runs,
                   prev_ok, outside>>

\* SteppedJob.wait: one s.wait() of the loop, or the return
WaitJoin ==
    /\ mpc \in {"join", "kill_join"}
    /\ IF mi > steps
          THEN /\ mpc' = "idle"
               /\ kchild' = FALSE
               /\ UNCHANGED mi
          ELSE /\ Joined(mi)
               /\ mi' = mi + 1
               /\ UNCHANGED <<mpc, kchild>>
    /\ UNCHANGED <<names, jid, raised, steps, status, kill_event, step_status,
                   terminated_event, task, queue, workers, first, runs, kill_seen,
                   prev_ok, outside>>

\* ------------------------------------------------------------ the workers

\* the default data_builder, ' '.join(d), raises TypeError on None
data_builder_raises(d) == d = Kill

\* Step._execute, lines 432-437: get the input and build the options
WorkerGet(w) ==
    LET rec == workers[w]
        k == rec.stage IN
    /\ rec.pc = "get"
    /\ queue[k - 1] # <<>>
    /\ LET d == Head(queue[k - 1]) IN
          /\ queue' = [queue EXCEPT ![k - 1] = Tail(@)]
          /\ workers' = [workers EXCEPT ![w] =
                IF data_builder_raises(d)
                   THEN Exited(w, [rec EXCEPT !.data = d])
                   ELSE [rec EXCEPT !.data = d, !.pc = "chk1"]]
    /\ UNCHANGED <<kill_seen, kchild, names, jid, raised, steps, status, kill_event,
                   step_status, terminated_event, task, mpc, mi, first, runs, prev_ok, outside>>

\* Step._execute, line 445, and Job._run_process up to Popen
WorkerSpawn(w) ==
    LET rec == workers[w] IN
    /\ rec.pc = "chk1"
    /\ workers' = [workers EXCEPT ![w] =
          IF ~kill_event
             THEN [rec EXCEPT !.pc = "poll", !.child = "running"]
             ELSE [rec EXCEPT !.pc = "chk2"]]
    /\ UNCHANGED <<kill_seen, kchild, names, jid, raised, steps, status, kill_event,
                   step_status, terminated_event, task, queue, mpc, mi, first, runs,
                   prev_ok, outside>>

\* Job._run_process, lines 246 and 258: the child has exited with code 0
ChildExitZero(w) ==
    LET rec == workers[w] IN
    /\ rec.pc = "poll"
    /\ workers' = [workers EXCEPT ![w] = [rec EXCEPT !.pc = "chk2", !.child = "ok"]]
    /\ UNCHANGED <<kill_seen, kchild, names, jid, raised, steps, status, kill_event,
                   step_status, terminated_event, task, queue, mpc, mi, first, runs,
                   prev_ok, outside>>

\* Job._run_process, lines 246 and 258-263: the child has exited with another code
ChildExitFail(w) ==
    LET rec == workers[w] IN
    /\ rec.pc = "poll"
    /\ workers' = [workers EXCEPT ![w] = [rec EXCEPT !.pc = "chk2", !.child = "fail"]]
    /\ kill_event' = TRUE
    /\ kill_seen' = TRUE
    /\ UNCHANGED <<kchild, names, jid, raised, steps, status, step_status,
                   terminated_event, task, queue, mpc, mi, first, runs, prev_ok, outside>>

\* Job._run_process, lines 247-263: the event is set, the child is killed
WorkerKillChild(w) ==
    LET rec == workers[w] IN
    /\ rec.pc = "poll"
    /\ kill_event
    /\ workers' = [workers EXCEPT ![w] = [rec EXCEPT !.pc = "chk2", !.child = "killed"]]
    /\ kill_event' = TRUE
    /\ kill_seen' = TRUE
    /\ UNCHANGED <<kchild, names, jid, raised, steps, status, step_status,
                   terminated_event, task, queue, mpc, mi, first, runs, prev_ok, outside>>

\* Step._execute, lines 448-471: publish Kill, or the files and "terminated"
WorkerPublish(w) ==
    LET rec == workers[w]
        k == rec.stage
        o == IF kill_event THEN Kill ELSE rec.run
        next == [rec EXCEPT !.out = o, !.pc = "putback"] IN
    /\ rec.pc = "chk2"
    /\ queue' = [queue EXCEPT ![k] = Append(@, o)]
    /\ terminated_event' = IF kill_event THEN terminated_event
                           ELSE [terminated_event EXCEPT ![k] = TRUE]
    /\ workers' = [workers EXCEPT ![w] = IF k > 1 THEN next ELSE Exited(w, next)]
    /\ UNCHANGED <<kill_seen, kchild, names, jid, raised, steps, status, kill_event,
                   step_status, task, mpc, mi, first, runs, prev_ok, outside>>

\* Step._execute, lines 473-474: put the input back
WorkerPutBack(w) ==
    LET rec == workers[w]
        k == rec.stage IN
    /\ rec.pc = "putback"
    /\ queue' = [queue EXCEPT ![k - 1] = Append(@, rec.data)]
    /\ workers' = [workers EXCEPT ![w] = Exited(w, [rec EXCEPT !.back = TRUE])]
    /\ UNCHANGED <<kill_seen, kchild, names, jid, raised, steps, status, kill_event,
                   step_status, terminated_event, task, mpc, mi, first, runs, prev_ok, outside>>

\* ------------------------------------------------------------ the monitors

\* a Job.update_status that does not look at the terminated event
JobUpdatedStatus_noevent(k) ==
    IF task[k] # 0 /\ Joined(k) /\ kill_event THEN killed
    ELSE step_status[k]

\* Job.update_status: the status of step k after the call
JobUpdatedStatus(k) ==
    IF terminated_event[k] THEN terminated
    ELSE IF task[k] # 0 /\ Joined(k) /\ kill_event THEN killed
    ELSE step_status[k]

\* Job.update_status on step k, called by the Watchdog of SteppedJob.steps
StepUpdateStatus(k) ==
    /\ k <= steps
    /\ step_status' = [step_status EXCEPT ![k] = JobUpdatedStatus(k)]
    /\ UNCHANGED <<kill_seen, kchild, names, jid, raised, steps, status, kill_event,
                   terminated_event, task, queue, workers, mpc, mi, first, runs,
                   prev_ok, outside>>

\* SteppedJob.update_status: the status of the pipeline after the call,
\* for the step statuses ss
SteppedJobUpdatedStatus(ss) ==
    IF status \in {terminated, killed} THEN status
    ELSE IF \A k \in 1..steps : ss[k] = terminated THEN terminated
    ELSE IF \E k \in 1..steps : ss[k] = killed THEN killed
    ELSE status

\* SteppedJob.update_status, called by the Watchdog of the registry
update_status ==
    /\ status' = SteppedJobUpdatedStatus(step_status)
    /\ UNCHANGED <<kill_seen, kchild, names, jid, raised, steps, kill_event,
                   step_status, terminated_event, task, queue, workers, mpc, mi, first,
                   runs, prev_ok, outside>>

\* Watchdog._watchdog of the registry that holds the pipeline: a pass of
\* _update_status while the monitor has not been stopped
WatchdogPass ==
    /\ mpc \notin {"del_kill", "del_wait", "closed"}
    /\ update_status

\* JobRegistry.__del__, lines 38-42: the monitor makes its last pass and
\* stops, then the pipeline is killed unless its status is terminated
JobRegistry_del ==
    /\ mpc = "idle"
    /\ status' = SteppedJobUpdatedStatus(step_status)
    /\ IF status' # terminated
          THEN /\ kill_event' = TRUE
               /\ kill_seen' = TRUE
               /\ kchild' = ChildRunning
               /\ mpc' = "del_kill"
          ELSE /\ mpc' = "del_wait"
               /\ UNCHANGED <<kill_event, kill_seen, kchild>>
    /\ mi' = 1
    /\ raised' = NoError
    /\ UNCHANGED <<names, jid, steps, step_status, terminated_event, task, queue,
                   workers, first, runs, prev_ok, outside>>

\* JobRegistry.__del__: the wait() inside kill(), then the wait() of lines
\* 45-46; after the second one the registry is torn down
JobRegistry_del_wait ==
    /\ mpc \in {"del_kill", "del_wait"}
    /\ IF mi > steps
          THEN /\ mpc' = IF mpc = "del_kill" THEN "del_wait" ELSE "closed"
               /\ mi' = 1
          ELSE /\ Joined(mi)
               /\ mi' = mi + 1
               /\ UNCHANGED mpc
    /\ UNCHANGED <<names, jid, raised, steps, status, kill_event, step_status,
                   terminated_event, task, queue, workers, first, runs, kill_seen,
                   kchild, prev_ok, outside>>

\* ------------------------------------------------------------ specification

Caller ==
    \/ add_step
    \/ StartCall
    \/ StartJoin
    \/ StartReset
    \/ StartClear
    \/ StartClearGet
    \/ StepStartStatus
    \/ StepStartClearKill
    \/ StepStartThread
    \/ kill
    \/ wait
    \/ WaitJoin

Worker(w) ==
    \/ WorkerGet(w)
    \/ WorkerSpawn(w)
    \/ ChildExitZero(w)
    \/ ChildExitFail(w)
    \/ WorkerKillChild(w)
    \/ WorkerPublish(w)
    \/ WorkerPutBack(w)

Monitor ==
    \/ \E k \in Stages : StepUpdateStatus(k)
    \/ update_status

Next ==
    \/ Caller
    \/ \E w \in Wid : Worker(w)
    \/ Monitor

Spec == Init /\ [][Next]_vars

\* The threads are scheduled: a call in progress on the caller's thread goes
\* on when it can, and so does the code of each worker. Nothing makes the
\* caller issue one more call, nor a child process exit on its own.
CallInProgress ==
    \/ StartJoin
    \/ StartReset
    \/ StartClear
    \/ StartClearGet
    \/ StepStartStatus
    \/ StepStartClearKill
    \/ StepStartThread
    \/ WaitJoin

WorkerCode(w) ==
    \/ WorkerGet(w)
    \/ WorkerSpawn(w)
    \/ WorkerKillChild(w)
    \/ WorkerPublish(w)
    \/ WorkerPutBack(w)

FairSpec ==
    /\ Spec
    /\ WF_vars(CallInProgress)
    /\ \A w \in Wid : WF_vars(WorkerCode(w))

\* The caller only builds the pipeline, with add_step or by constructing the
\* steps itself, and kills or waits for it without starting it; the monitors
\* run.
BuildNext ==
    \/ add_step
    \/ NewStep
    \/ kill
    \/ wait
    \/ WaitJoin
    \/ Monitor

BuildSpec == Init /\ [][BuildNext]_vars

\* The caller builds and starts the pipeline, and then tears down the
\* registry that holds it; all the threads run.
TeardownNext ==
    \/ add_step
    \/ StartCall
    \/ StartJoin
    \/ StartReset
    \/ StartClear
    \/ StartClearGet
    \/ StepStartStatus
    \/ StepStartClearKill
    \/ StepStartThread
    \/ JobRegistry_del
    \/ JobRegistry_del_wait
    \/ \E w \in Wid : Worker(w)
    \/ \E k \in Stages : StepUpdateStatus(k)
    \/ WatchdogPass

TeardownSpec == Init /\ [][TeardownNext]_vars

\* ------------------------------------------------------- utils.create_dir

\* the digits that the names of the entries are written with
Digits == {0, 1, 9}

\* the names of at most n digits
DigitNames(n) == UNION {[1..k -> Digits] : k \in 1..n}

\* int(s): the number that the decimal string s writes
RECURSIVE int(_)
int(s) ==
    IF Len(s) = 0 THEN 0
    ELSE 10 * int(SubSeq(s, 1, Len(s) - 1)) + s[Len(s)]

\* str(n): the decimal string of the number n, without leading zeros
RECURSIVE str(_)
str(n) ==
    IF n < 10 THEN <<n>> ELSE Append(str(n \div 10), n % 10)

\* an allocator that counts the entries instead
next_pid_len(files) == Cardinality(files)

\* create_dir, lines 27-32: the number of the directory to create
next_pid(files) ==
    IF files # {} THEN MaxOf({int(f) : f \in files}) + 1 ELSE 0

\* create_dir(path): path is made if missing; the new directory is made by
\* os.mkdir, which raises (NoName is recorded) when the entry exists
create_dir ==
    /\ Len(created) < MaxCalls
    /\ LET cdir == str(next_pid(listdir)) IN
          IF cdir \in listdir
             THEN /\ created' = Append(created, NoName)
                  /\ UNCHANGED listdir
             ELSE /\ created' = Append(created, cdir)
                  /\ listdir' = listdir \cup {cdir}
    /\ isdir' = TRUE
    /\ UNCHANGED <<pipeline, out_vars, reg_vars, job_vars, iso_vars, watch_vars>>

\* the path does not exist, or exists with some integer-named entries
DirInit ==
    /\ SteppedJob_init
    /\ NoOutput
    /\ NoRegistry
    /\ Job_init
    /\ NoKill
    /\ Watchdog_init
    /\ isdir \in BOOLEAN
    /\ listdir \in {F \in SUBSET DigitNames(MaxNameLen) : Cardinality(F) <= MaxEntries}
    /\ isdir = FALSE => listdir = {}
    /\ created = <<>>

DirNext == create_dir

DirSpec == DirInit /\ [][DirNext]_vars

\* --------------------------------------------- Step._execute: the output

\* the characters of the names of the entries
Chars == {"t", "x"}

\* the tokens of a data_regex: a character, "." (any character) or "*",
\* which stands for ".*" (any characters, also none)
Tokens == Chars \cup {".", "*"}

FileNames == UNION {[1..k -> Chars] : k \in 1..MaxFileLen}

Regexes == UNION {[1..k -> Tokens] : k \in 1..MaxRegexLen}

\* the whole of the string s matches the pattern p (re.fullmatch)
RECURSIVE fullmatch(_, _)
fullmatch(p, s) ==
    IF p = <<>> THEN s = <<>>
    ELSE IF Head(p) = "*"
            THEN \E i \in 0..Len(s) : fullmatch(Tail(p), SubSeq(s, i + 1, Len(s)))
            ELSE /\ s # <<>>
                 /\ Head(p) \in {".", Head(s)}
                 /\ fullmatch(Tail(p), Tail(s))

\* dr.match(s) is not None: the pattern p matches at the beginning of the
\* string s, up to any position of it
RECURSIVE match(_, _)
match(p, s) ==
    IF p = <<>> THEN TRUE
    ELSE IF Head(p) = "*"
            THEN \E i \in 0..Len(s) : match(Tail(p), SubSeq(s, i + 1, Len(s)))
            ELSE /\ s # <<>>
                 /\ Head(p) \in {".", Head(s)}
                 /\ match(Tail(p), Tail(s))

\* os.path.join(self._odir, name)
join(name) == <<"odir">> \o name

\* Step._execute, lines 461-469, after a run without kill: the paths of the
\* entries that the regex matches are put on the outbound queue
publish ==
    /\ output = {NoName}
    /\ output' = {join(e) : e \in {f \in odir : match(data_regex, f)}}
    /\ UNCHANGED <<pipeline, dir_vars, reg_vars, job_vars, iso_vars, watch_vars, odir, data_regex>>

\* a step with some data_regex, whose child has left some entries
OutInit ==
    /\ SteppedJob_init
    /\ NoDir
    /\ NoRegistry
    /\ Job_init
    /\ NoKill
    /\ Watchdog_init
    /\ odir \in {F \in SUBSET FileNames : Cardinality(F) <= MaxFiles}
    /\ data_regex \in Regexes
    /\ output = {NoName}

OutNext == publish

OutSpec == OutInit /\ [][OutNext]_vars

\* ------------------------------------------- registries and singletons
\* An object is a positive number, its position in registries; 0 is None.
\* registries[o] is the list of the jobs registered in o, jobs[j] is what the
\* job number j was constructed from, and handles is the history of the calls
\* that obtain a default registry, close() included.

\* the object a construction creates
Fresh == Len(registries) + 1

Range(f) == {f[i] : i \in DOMAIN f}

\* ContextManager.__new__, were it to build an instance at each call
ContextManager_new_always(fresh) == fresh

\* ContextManager.__new__: a new instance only while the class is not
\* initialized, the stored one afterwards
ContextManager_new(fresh) ==
    IF cm_initialized = FALSE THEN fresh ELSE cm_instance

\* JobManager.__new__: a new instance only while none is stored
JobManager_new(fresh) ==
    IF jm_instance = 0 THEN fresh ELSE jm_instance

\* the registries after the construction that returned object o
Constructed(o) ==
    IF o > Len(registries) THEN Append(registries, <<>>) ELSE registries

\* ContextManager(): __new__, then __init__, which returns at once when the
\* class is initialized
ContextManager_call ==
    /\ Len(handles) < MaxObtain
    /\ Len(registries) < MaxRegistries
    /\ LET o == ContextManager_new(Fresh) IN
        /\ cm_instance' = o
        /\ registries' = Constructed(o)
        /\ handles' = Append(handles, [f |-> "ContextManager", h |-> o])
    /\ cm_initialized' = TRUE
    /\ UNCHANGED <<jm_instance, jobs>>
    /\ UNCHANGED <<pipeline, dir_vars, out_vars, job_vars, iso_vars, watch_vars>>

\* JobManager() and manager(), which returns JobManager()
JobManager_call(f) ==
    /\ Len(handles) < MaxObtain
    /\ Len(registries) < MaxRegistries
    /\ LET o == JobManager_new(Fresh) IN
        /\ jm_instance' = o
        /\ registries' = Constructed(o)
        /\ handles' = Append(handles, [f |-> f, h |-> o])
    /\ UNCHANGED <<cm_instance, cm_initialized, jobs>>
    /\ UNCHANGED <<pipeline, dir_vars, out_vars, job_vars, iso_vars, watch_vars>>

\* ContextManager.close on the instance: the watchdog stops and the jobs are
\* killed and joined; the class attributes and the list stay
close ==
    /\ Len(handles) < MaxObtain
    /\ cm_instance # 0
    /\ handles' = Append(handles, [f |-> "close", h |-> cm_instance])
    /\ UNCHANGED <<cm_instance, cm_initialized, jm_instance, registries, jobs>>
    /\ UNCHANGED <<pipeline, dir_vars, out_vars, job_vars, iso_vars, watch_vars>>

\* JobRegistry(): a registry of the caller
JobRegistry_init ==
    /\ Len(registries) < MaxRegistries
    /\ registries' = Append(registries, <<>>)
    /\ UNCHANGED <<cm_instance, cm_initialized, jm_instance, jobs, handles>>
    /\ UNCHANGED <<pipeline, dir_vars, out_vars, job_vars, iso_vars, watch_vars>>

\* JobBase.__init__, were it to test the registry given for truth: an empty
\* registry is a false value
registry_of_truthy(given, fresh) ==
    IF given = 0 \/ registries[given] = <<>>
    THEN JobManager_new(fresh) ELSE given

\* JobBase.__init__: the registry the job registers in
registry_of(given, fresh) ==
    IF given = 0 THEN JobManager_new(fresh) ELSE given

\* a JobBase.__init__ whose default kill event is one object made once,
\* whatever the job
kill_event_of_default(given, fresh) ==
    IF given # 0 THEN given ELSE MaxJobs + 1

\* JobBase.__init__: the kill event of the job, the one given or a new one;
\* a new event is numbered as the job that makes it
kill_event_of(given, fresh) ==
    IF given # 0 THEN given ELSE fresh

\* JobBase.__init__ of a Job or of a SteppedJob, which builds the registry of
\* its steps afterwards
JobBase_init(kind, given) ==
    /\ Len(jobs) < MaxJobs
    /\ Len(registries) + 2 <= MaxRegistries
    /\ given \in 0..Len(registries)
    /\ LET r == registry_of(given, Fresh)
           all == Constructed(r)
           reg == [all EXCEPT ![r] = Append(@, Len(jobs) + 1)]
           own == IF kind = "SteppedJob" THEN Len(all) + 1 ELSE 0 IN
        /\ jm_instance' = (IF r > Len(registries) THEN r ELSE jm_instance)
        /\ registries' = (IF own # 0 THEN Append(reg, <<>>) ELSE reg)
        /\ jobs' = Append(jobs, [kind |-> kind, given |-> given, parent |-> 0,
                                 steps |-> own, jid |-> register(Len(all[r])),
                                 event |-> kill_event_of(0, Len(jobs) + 1)])
    /\ UNCHANGED <<cm_instance, cm_initialized, handles>>
    /\ UNCHANGED <<pipeline, dir_vars, out_vars, job_vars, iso_vars, watch_vars>>

\* Step.__init__: JobBase.__init__ with the registry of the steps of the
\* parent
Step_new(p) ==
    /\ Len(jobs) < MaxJobs
    /\ Len(registries) < MaxRegistries
    /\ p \in 1..Len(jobs)
    /\ jobs[p].kind = "SteppedJob"
    /\ LET r == registry_of(jobs[p].steps, Fresh)
           all == Constructed(r) IN
        /\ jm_instance' = (IF r > Len(registries) THEN r ELSE jm_instance)
        /\ registries' = [all EXCEPT ![r] = Append(@, Len(jobs) + 1)]
        /\ jobs' = Append(jobs, [kind |-> "Step", given |-> jobs[p].steps,
                                 parent |-> p, steps |-> 0,
                                 jid |-> register(Len(all[r])),
                                 event |-> kill_event_of(jobs[p].event,
                                                         Len(jobs) + 1)])
    /\ UNCHANGED <<cm_instance, cm_initialized, handles>>
    /\ UNCHANGED <<pipeline, dir_vars, out_vars, job_vars, iso_vars, watch_vars>>

RegistryInit ==
    /\ SteppedJob_init
    /\ NoDir
    /\ NoOutput
    /\ NoRegistry
    /\ Job_init
    /\ NoKill
    /\ Watchdog_init

RegistryNext ==
    \/ ContextManager_call
    \/ \E f \in {"JobManager", "manager"} : JobManager_call(f)
    \/ close
    \/ JobRegistry_init
    \/ \E kind \in {"Job", "SteppedJob"} :
           \E given \in 0..MaxRegistries : JobBase_init(kind, given)
    \/ \E p \in 1..MaxJobs : Step_new(p)

RegistrySpec == RegistryInit /\ [][RegistryNext]_vars

\* ------------------------------------------------- the kill events of jobs
\* Several pipelines and single Jobs constructed by JobBase_init and Step_new,
\* each with the kill event its constructor stores; kill_set is the set of
\* the events that are set.

\* JobBase.kill on a pipeline or on a single Job: its event is set
JobBase_kill(j) ==
    /\ j \in 1..Len(jobs)
    /\ jobs[j].kind # "Step"
    /\ kill_set' = kill_set \cup {jobs[j].event}
    /\ acted' = j
    /\ UNCHANGED <<pipeline, dir_vars, out_vars, reg_vars, job_vars, watch_vars>>

\* Job._run_process of a Step or of a single Job: the child exits with a
\* code that is not 0 and the thread sets the event of the job
child_failed(j) ==
    /\ j \in 1..Len(jobs)
    /\ jobs[j].kind # "SteppedJob"
    /\ kill_set' = kill_set \cup {jobs[j].event}
    /\ acted' = j
    /\ UNCHANGED <<pipeline, dir_vars, out_vars, reg_vars, job_vars, watch_vars>>

\* Job.start and SteppedJob.start: the event of the job is cleared
start_clears(j) ==
    /\ j \in 1..Len(jobs)
    /\ jobs[j].event \in kill_set
    /\ kill_set' = kill_set \ {jobs[j].event}
    /\ acted' = 0
    /\ UNCHANGED <<pipeline, dir_vars, out_vars, reg_vars, job_vars, watch_vars>>

IsolationInit ==
    /\ SteppedJob_init
    /\ NoDir
    /\ NoOutput
    /\ NoRegistry
    /\ Job_init
    /\ NoKill
    /\ Watchdog_init

IsolationNext ==
    \/ \E kind \in {"Job", "SteppedJob"} :
           \E given \in 0..MaxRegistries : JobBase_init(kind, given)
    \/ \E p \in 1..MaxJobs : Step_new(p)
    \/ \E j \in 1..MaxJobs : JobBase_kill(j) \/ child_failed(j) \/ start_clears(j)

IsolationSpec == IsolationInit /\ [][IsolationNext]_vars

\* ------------------------------------------- the Watchdog of a registry
\* One registry: the thread that constructs jobs in it, one after the other,
\* and the thread of its Watchdog. built[j] is "registered" from the return of
\* registry.register(self) in JobBase.__init__ until the constructor of the
\* subclass has set the fields that update_status reads. pass records, for the
\* update pass in progress, the jobs whose watch() had returned when it began
\* and how many times update_status was called on each.

\* JobBase.__init__ up to its last statement: the job is appended to the
\* registry and put on the queue of the Watchdog
JobBase_registered(j) ==
    /\ built[j] = "no"
    /\ \A i \in 1..(j - 1) : built[i] = "done"
    /\ built' = [built EXCEPT ![j] = "registered"]
    /\ job_queue' = Append(job_queue, j)
    /\ UNCHANGED <<monitor, stop_event, pass>>
    /\ UNCHANGED <<pipeline, dir_vars, out_vars, reg_vars, job_vars, iso_vars>>

\* the rest of the constructor of the subclass: Job.__init__ sets _task,
\* SteppedJob.__init__ sets steps
Job_init_done(j) ==
    /\ built[j] = "registered"
    /\ built' = [built EXCEPT ![j] = "done"]
    /\ UNCHANGED <<job_queue, monitor, stop_event, pass>>
    /\ UNCHANGED <<pipeline, dir_vars, out_vars, reg_vars, job_vars, iso_vars>>

\* Job.update_status reads self._task and SteppedJob.update_status reads
\* self.steps: AttributeError while the constructor has not set them
raises(j) == built[j] = "registered"

\* Watchdog.stop: the stop event is set; the join that follows changes nothing
Watchdog_stop_set ==
    /\ ~stop_event
    /\ stop_event' = TRUE
    /\ UNCHANGED <<job_queue, monitor, built, pass>>
    /\ UNCHANGED <<pipeline, dir_vars, out_vars, reg_vars, job_vars, iso_vars>>

\* Watchdog._watchdog: the test of the stop event, and the call of
\* _update_status, the last one when the event is set
PassBegin ==
    /\ monitor.pc = "loop"
    /\ monitor' = [pc |-> "drain", j |-> 0, jlst |-> <<>>, last |-> stop_event]
    /\ pass' = [before |-> {j \in Watched : built[j] # "no"},
                calls |-> [j \in Watched |-> 0]]
    /\ UNCHANGED <<job_queue, built, stop_event>>
    /\ UNCHANGED <<pipeline, dir_vars, out_vars, reg_vars, job_vars, iso_vars>>

\* Watchdog._update_status: the test of empty() and the get()
PassGet ==
    /\ monitor.pc = "drain"
    /\ IF job_queue = <<>>
          THEN /\ monitor' = [monitor EXCEPT !.pc = "reput"]
               /\ UNCHANGED job_queue
          ELSE /\ monitor' = [monitor EXCEPT !.pc = "update", !.j = Head(job_queue)]
               /\ job_queue' = Tail(job_queue)
    /\ UNCHANGED <<built, stop_event, pass>>
    /\ UNCHANGED <<pipeline, dir_vars, out_vars, reg_vars, job_vars, iso_vars>>

\* Watchdog._update_status: j.update_status() and jlst.append(j); an
\* exception ends the thread, nothing catches it
PassUpdate ==
    /\ monitor.pc = "update"
    /\ IF raises(monitor.j)
          THEN /\ monitor' = [monitor EXCEPT !.pc = "dead"]
               /\ UNCHANGED pass
          ELSE /\ monitor' = [monitor EXCEPT !.pc = "drain", !.j = 0,
                                             !.jlst = Append(@, monitor.j)]
               /\ pass' = [pass EXCEPT !.calls[monitor.j] = @ + 1]
    /\ UNCHANGED <<job_queue, built, stop_event>>
    /\ UNCHANGED <<pipeline, dir_vars, out_vars, reg_vars, job_vars, iso_vars>>

\* Watchdog._update_status: the jobs of jlst are put back, one at a time;
\* then the pass is over, and the thread too if the pass was the last one
PassPut ==
    /\ monitor.pc = "reput"
    /\ IF monitor.jlst = <<>>
          THEN /\ monitor' = [monitor EXCEPT
                                 !.pc = IF monitor.last THEN "exit" ELSE "loop"]
               /\ UNCHANGED job_queue
          ELSE /\ job_queue' = Append(job_queue, Head(monitor.jlst))
               /\ monitor' = [monitor EXCEPT !.jlst = Tail(@)]
    /\ UNCHANGED <<built, stop_event, pass>>
    /\ UNCHANGED <<pipeline, dir_vars, out_vars, reg_vars, job_vars, iso_vars>>

WatchInit ==
    /\ SteppedJob_init
    /\ NoDir
    /\ NoOutput
    /\ NoRegistry
    /\ Job_init
    /\ NoKill
    /\ Watchdog_init

WatchNext ==
    \/ \E j \in Watched : JobBase_registered(j) \/ Job_init_done(j)
    \/ Watchdog_stop_set
    \/ PassBegin
    \/ PassGet
    \/ PassUpdate
    \/ PassPut

WatchSpec == WatchInit /\ [][WatchNext]_vars

\* ---------------------------------------------- single Jobs of a registry
\* The Jobs of one registry, each with its own events, the threads running
\* Job._execute, the thread of the caller and the Watchdog of the registry.
\* history records, for each Job since its last start, whether kill() was
\* called while its thread was alive and whether a wait() or kill() returned,
\* and whether start() was ever called while its thread was alive.

\* the thread of the Job is alive
TaskAlive(j) == job[j].task # 0 /\ thread[job[j].task].pc # "dead"

\* Job.update_status
JobStatus(j) ==
    IF job[j].terminated_event THEN terminated
    ELSE IF job[j].task # 0 /\ ~TaskAlive(j) /\ job[j].kill_event THEN killed
    ELSE job[j].status

\* Watchdog._watchdog leaving its loop without the last update
last_update_skipped(j) == job[j].status

\* Watchdog._watchdog: the last update, after the stop event is seen
last_update(j) == JobStatus(j)

\* Job.start, first statement: the status
Job_start(j) ==
    /\ caller.pc = "idle"
    /\ job' = [job EXCEPT ![j].status = running]
    /\ caller' = [pc |-> "start_clear", j |-> j]
    /\ history' = [history EXCEPT ![j] = [killed |-> FALSE, joined |-> FALSE,
                       concurrent |-> @.concurrent \/ TaskAlive(j)]]
    /\ UNCHANGED <<thread, watchdog>>
    /\ UNCHANGED <<pipeline, dir_vars, out_vars, reg_vars, iso_vars, watch_vars>>

\* Job.start: both events are cleared
Job_start_clear ==
    /\ caller.pc = "start_clear"
    /\ job' = [job EXCEPT ![caller.j].kill_event = FALSE,
                          ![caller.j].terminated_event = FALSE]
    /\ caller' = [caller EXCEPT !.pc = "start_thread"]
    /\ UNCHANGED <<thread, watchdog, history>>
    /\ UNCHANGED <<pipeline, dir_vars, out_vars, reg_vars, iso_vars, watch_vars>>

\* the threads that took no slot
FreeThreads == {t \in Tid : thread[t].job = 0}

\* Job.start: the thread is created and started; the thread it replaces is
\* forgotten, and goes on if it is alive
Job_start_thread ==
    /\ caller.pc = "start_thread"
    /\ LET j == caller.j
           old == job[j].task
           kept == IF old # 0 /\ thread[old].pc = "dead"
                   THEN [thread EXCEPT ![old] = NoThread] ELSE thread
           free == {t \in Tid : kept[t].job = 0} IN
        /\ free # {}
        /\ LET t == MinOf(free) IN
            /\ thread' = [kept EXCEPT ![t] = [job |-> j, pc |-> "spawn",
                                              child |-> "none"]]
            /\ job' = [job EXCEPT ![j].task = t]
    /\ caller' = [pc |-> "idle", j |-> 0]
    /\ UNCHANGED <<watchdog, history>>
    /\ UNCHANGED <<pipeline, dir_vars, out_vars, reg_vars, iso_vars, watch_vars>>

\* JobBase.kill: the event of the Job is set, then wait()
Job_kill(j) ==
    /\ caller.pc = "idle"
    /\ job' = [job EXCEPT ![j].kill_event = TRUE]
    /\ caller' = [pc |-> "join", j |-> j]
    /\ history' = [history EXCEPT ![j].killed = @ \/ TaskAlive(j)]
    /\ UNCHANGED <<thread, watchdog>>
    /\ UNCHANGED <<pipeline, dir_vars, out_vars, reg_vars, iso_vars, watch_vars>>

\* Job.wait is called
Job_wait(j) ==
    /\ caller.pc = "idle"
    /\ caller' = [pc |-> "join", j |-> j]
    /\ UNCHANGED <<job, thread, watchdog, history>>
    /\ UNCHANGED <<pipeline, dir_vars, out_vars, reg_vars, iso_vars, watch_vars>>

\* Job.wait returns: there is no task or the task is joined
Job_join ==
    /\ caller.pc = "join"
    /\ ~TaskAlive(caller.j)
    /\ caller' = [pc |-> "idle", j |-> 0]
    /\ history' = [history EXCEPT ![caller.j].joined = job[caller.j].task # 0]
    /\ UNCHANGED <<job, thread, watchdog>>
    /\ UNCHANGED <<pipeline, dir_vars, out_vars, reg_vars, iso_vars, watch_vars>>

\* Watchdog.stop: the stop event is set and the watchdog thread is joined,
\* after its last update of every job; the caller calls nothing afterwards
Watchdog_stop ==
    /\ caller.pc = "idle"
    /\ watchdog = "running"
    /\ job' = [j \in Single |-> [job[j] EXCEPT !.status = last_update(j)]]
    /\ watchdog' = "stopped"
    /\ caller' = [pc |-> "done", j |-> 0]
    /\ UNCHANGED <<thread, history>>
    /\ UNCHANGED <<pipeline, dir_vars, out_vars, reg_vars, iso_vars, watch_vars>>

\* Watchdog._update_status, on one job of the queue
Job_update_status(j) ==
    /\ watchdog = "running"
    /\ job' = [job EXCEPT ![j].status = JobStatus(j)]
    /\ UNCHANGED <<thread, caller, watchdog, history>>
    /\ UNCHANGED <<pipeline, dir_vars, out_vars, reg_vars, iso_vars, watch_vars>>

\* the record of a thread that returns: it is kept while it is the task of
\* its Job
Returns(t, rec) ==
    IF job[thread[t].job].task = t THEN [rec EXCEPT !.pc = "dead"]
    ELSE NoThread

\* Job._run_process: the working directory is emptied and the child is
\* spawned, whatever the kill event
JobSpawn(t) ==
    /\ thread[t].pc = "spawn"
    /\ thread' = [thread EXCEPT ![t].pc = "poll", ![t].child = "running"]
    /\ UNCHANGED <<job, caller, watchdog, history>>
    /\ UNCHANGED <<pipeline, dir_vars, out_vars, reg_vars, iso_vars, watch_vars>>

\* Job._run_process: the child exits with 0 and the loop ends
JobChildExitZero(t) ==
    /\ thread[t].pc = "poll"
    /\ thread' = [thread EXCEPT ![t].pc = "fin", ![t].child = "ok"]
    /\ UNCHANGED <<job, caller, watchdog, history>>
    /\ UNCHANGED <<pipeline, dir_vars, out_vars, reg_vars, iso_vars, watch_vars>>

\* Job._run_process: the child exits with another code, the loop ends and
\* the kill event is set
JobChildExitFail(t) ==
    /\ thread[t].pc = "poll"
    /\ thread' = [thread EXCEPT ![t].pc = "fin", ![t].child = "fail"]
    /\ job' = [job EXCEPT ![thread[t].job].kill_event = TRUE]
    /\ UNCHANGED <<caller, watchdog, history>>
    /\ UNCHANGED <<pipeline, dir_vars, out_vars, reg_vars, iso_vars, watch_vars>>

\* Job._run_process: the loop sees the kill event and kills the child, whose
\* code is then not 0
JobKillChild(t) ==
    /\ thread[t].pc = "poll"
    /\ job[thread[t].job].kill_event
    /\ thread' = [thread EXCEPT ![t].pc = "fin", ![t].child = "killed"]
    /\ UNCHANGED <<job, caller, watchdog, history>>
    /\ UNCHANGED <<pipeline, dir_vars, out_vars, reg_vars, iso_vars, watch_vars>>

\* Job._execute: the terminated event is set unless the kill event is, and
\* the thread returns
JobFinish(t) ==
    /\ thread[t].pc = "fin"
    /\ job' = [job EXCEPT ![thread[t].job].terminated_event =
                              @ \/ ~job[thread[t].job].kill_event]
    /\ thread' = [thread EXCEPT ![t] = Returns(t, thread[t])]
    /\ UNCHANGED <<caller, watchdog, history>>
    /\ UNCHANGED <<pipeline, dir_vars, out_vars, reg_vars, iso_vars, watch_vars>>

JobInit ==
    /\ SteppedJob_init
    /\ NoDir
    /\ NoOutput
    /\ NoRegistry
    /\ Job_init
    /\ NoKill
    /\ Watchdog_init

JobNext ==
    \/ \E j \in Single : Job_start(j) \/ Job_kill(j) \/ Job_wait(j)
    \/ Job_start_clear
    \/ Job_start_thread
    \/ Job_join
    \/ Watchdog_stop
    \/ \E j \in Single : Job_update_status(j)
    \/ \E t \in Tid : \/ JobSpawn(t)
                      \/ JobChildExitZero(t)
                      \/ JobChildExitFail(t)
                      \/ JobKillChild(t)
                      \/ JobFinish(t)

JobSpec == JobInit /\ [][JobNext]_vars

\* ------------------------------------------------------------ the claims

\* no thread of the pipeline runs and the caller is between two calls
AllExited == \A w \in Wid : ~is_alive(w)

\* every step of the pipeline was started by the last SteppedJob.start
AllStartedInRun ==
    \A k \in 1..steps : task[k] # 0 /\ workers[task[k]].run = runs

\* update_status has run on every step and then on the pipeline, and
\* running it again changes nothing
StatusUpdated ==
    /\ \A k \in 1..steps : step_status[k] = JobUpdatedStatus(k)
    /\ status = SteppedJobUpdatedStatus(step_status)

\* the run in progress was started from the first step, whose child failed
FirstStageFailed ==
    /\ steps >= 2
    /\ first = 1
    /\ AllStartedInRun
    /\ workers[task[1]].child = "fail"

\* C1: in a pipeline of two or more steps started from the first one, if the
\* child of the first step exits with a non-zero code then, once wait() has
\* returned and update_status has run on every step and on the pipeline,
\* every step is killed and the pipeline is killed.
C1_FailurePropagation ==
    (FirstStageFailed /\ mpc = "idle" /\ AllExited /\ StatusUpdated)
        => /\ \A k \in 1..steps : step_status[k] = killed
           /\ status = killed

\* the caller is inside kill(), waiting for the steps: the kill event is set
InKill == mpc \in {"kill_join", "st_join"}

\* C2: once the kill event is set by kill(), every live worker of the
\* pipeline eventually exits, so that kill() returns.
C2_KillLiveness == InKill ~> AllExited

\* the thread held by step k has taken the Kill sentinel and is over
TookKill(k) ==
    /\ task[k] # 0
    /\ ~is_alive(task[k])
    /\ workers[task[k]].data = Kill

\* C3: a worker that takes the Kill sentinel from its inbound queue does not
\* spawn its child, puts Kill on its outbound queue and puts the sentinel
\* back on its inbound queue before it exits.
C3_KillSentinel ==
    \A k \in 1..steps :
        TookKill(k) => /\ workers[task[k]].child = "none"
                       /\ workers[task[k]].out = Kill
                       /\ workers[task[k]].back

\* C4: the kill event is cleared only by SteppedJob.start itself (line 585),
\* before any Step.start of the run; once set during a run it stays set.
C4_KillMonotonic ==
    [][(kill_event /\ ~kill_event') => mpc = "st_reset"]_vars

\* C5: the outbound queue of every step, the last one included, holds at
\* most one payload.
C5_MailboxBound ==
    \A k \in 1..steps : Len(queue[k]) <= 1

\* C6: if the status of the pipeline is terminated, the status of every
\* step is terminated.
C6_TerminatedIffAll ==
    status = terminated => \A k \in 1..steps : step_status[k] = terminated

\* C7: when some step is killed and update_status has been called on the
\* pipeline since, the status of the pipeline is killed.
C7_KilledStageKillsPipeline ==
    ((\E k \in 1..steps : step_status[k] = killed)
        /\ status = SteppedJobUpdatedStatus(step_status))
            => status = killed

\* C8: for a pipeline whose steps were all started by the last start(),
\* once every worker has exited and update_status has run on every step and
\* on the pipeline, the pipeline is terminated or killed (never new or
\* running), and so is every step.
C8_FinalStatus ==
    (steps > 0 /\ AllStartedInRun /\ mpc = "idle" /\ AllExited /\ StatusUpdated)
        => /\ status \in {terminated, killed}
           /\ \A k \in 1..steps : step_status[k] \in {terminated, killed}

\* C9: a worker publishes a list of files (and sets the terminated event)
\* only if its child exited with code 0; a worker whose child exited with
\* another code publishes Kill.
C9_TerminatedOnlyOnSuccess ==
    \A w \in Wid : workers[w].out > Kill => workers[w].child = "ok"

\* the changes of a status that the status model allows
Transitions ==
    {<<new, running>>, <<running, terminated>>, <<running, killed>>,
     <<terminated, running>>, <<killed, running>>}

Allowed(a, b) == a = b \/ <<a, b>> \in Transitions

\* C10: the status of a step or of the pipeline only changes along
\* new -> running, running -> terminated, running -> killed and
\* terminated or killed -> running.
C10_StatusTransitions ==
    [][/\ Allowed(status, status')
       /\ \A k \in Stages : Allowed(step_status[k], step_status'[k])]_vars

\* C11: add_step with a name that a step of the pipeline already has raises
\* an error to the caller and leaves the steps, their names and ids, the
\* queues, the statuses, the workers and the kill event as they were; a step
\* that add_step does add has a name no step had.
C11_DuplicateNameRejected ==
    [][/\ (raised # "RuntimeError" /\ raised' = "RuntimeError"
            => UNCHANGED <<steps, names, jid, status, kill_event, step_status,
                           terminated_event, task, queue, workers>>)
       /\ (steps' # steps => \A k \in 1..steps : names[k] # names'[steps'])]_vars

\* add_step has refused a name in a pipeline of two steps or more
C11_Witness == raised = "RuntimeError" /\ steps >= 2

\* C12: the names of the steps of a pipeline are pairwise distinct, also
\* when the caller constructs a Step with the pipeline as parent.
C12_NamesDistinct ==
    \A i, j \in 1..steps : i # j => names[i] # names[j]

\* C13: start(first=name) with a name no step has raises a lookup error and
\* leaves the status as it was. Only start makes a pipeline running, so
\* after such a call on a pipeline never started before, it is not running.
C13_LookupErrorNoMutation ==
    (raised = "LookupError" /\ runs = 1) => status # running

\* kill() was called with a child running, has joined the thread of every
\* step and returns
KillReturns == kchild /\ mpc = "kill_join" /\ mi > steps

\* the statuses of the steps once Job.update_status has run on each
UpdatedSteps == [k \in Stages |-> JobUpdatedStatus(k)]

\* C14: when a kill() called while the child of some step was running
\* returns, no child process of the pipeline runs, no step after a step
\* whose child was killed has spawned its child and, once the statuses are
\* updated, the pipeline is killed.
C14_ExternalKill ==
    KillReturns =>
        /\ \A w \in Wid : workers[w].child # "running"
        /\ \A k, j \in 1..steps :
              (k < j /\ task[k] # 0 /\ task[j] # 0
                  /\ workers[task[k]].child = "killed")
                      => workers[task[j]].child = "none"
        /\ SteppedJobUpdatedStatus(UpdatedSteps) = killed

\* wait() has returned after a start() of every step: the thread of every
\* step belongs to the last run and is over
WaitReturned ==
    /\ mpc = "idle"
    /\ AllStartedInRun
    /\ \A k \in 1..steps : Joined(k)

RestartedTook ==
    /\ prev_ok
    /\ first >= 2
    /\ task[first] # 0
    /\ workers[task[first]].run = runs
    /\ workers[task[first]].data # NoData

\* C16: after a run in which every step terminated, in a run started from a
\* later step i, the step i takes from its inbound queue the list of files
\* that step i-1 published in its last run.
C16_RestartFromLater ==
    RestartedTook =>
        /\ workers[task[first]].data > Kill
        /\ workers[task[first]].data = workers[task[first - 1]].out

\* C17: for two adjacent steps started by the last start(), once both
\* threads are over and no call of start is in progress, the queue between
\* them is not empty and holds the payload that the second one consumed.
C17_Republish ==
    \A k \in 2..steps :
        (/\ mpc \in {"idle", "join", "kill_join"}
         /\ task[k - 1] # 0 /\ task[k] # 0
         /\ workers[task[k - 1]].run = runs /\ workers[task[k]].run = runs
         /\ ~is_alive(task[k - 1]) /\ ~is_alive(task[k]))
            => \E i \in 1..Len(queue[k - 1]) :
                  queue[k - 1][i] = workers[task[k]].data

\* C18: in the run in progress, a step after the first step started never
\* takes a list of files published in an earlier run.
C18_NoStalePayload ==
    \A k \in 2..steps :
        (/\ k > first
         /\ task[k] # 0
         /\ workers[task[k]].run = runs
         /\ workers[task[k]].data > Kill)
            => workers[task[k]].data = runs

\* C19: clear_input_data on step mi, called while no thread runs, leaves
\* the inbound queue of the step empty.
C19_ClearInputData ==
    [][(mpc = "st_cget" /\ mpc' = "st_clear" /\ AllExited)
          => queue'[mi - 1] = <<>>]_vars

\* C20: the ids that the registry of the steps hands out are 0, 1, 2, ... in
\* the order of registration: pairwise distinct, increasing, and the id of
\* a step is its position in the registry.
C20_RegisterIds ==
    \A k \in 1..steps :
        /\ jid[k] = k - 1
        /\ \A j \in 1..(k - 1) : jid[j] < jid[k]

\* three steps are registered
C20_Witness == Len(jid) = 3

\* C25: once wait() has returned on a pipeline of one step or more started
\* from its first step, and the monitor of the registry has run its last
\* update_status on the pipeline (running it again changes nothing), the
\* status of the pipeline is terminated or killed.
C25_FinalPassPipeline ==
    (steps >= 1 /\ WaitReturned /\ status = SteppedJobUpdatedStatus(step_status))
        => status \in {terminated, killed}

\* C26: once wait() has returned on a pipeline of one step or more started
\* from its first step, one call of update_status on the pipeline makes its
\* status terminated or killed.
C26_DirectUpdate ==
    (steps >= 1 /\ WaitReturned)
        => SteppedJobUpdatedStatus(step_status) \in {terminated, killed}

\* every thread is over and the caller is between two calls
Quiet == mpc = "idle" /\ AllExited

\* C27: while every thread is over and the caller neither starts nor kills,
\* once update_status has been called on a step, or on the pipeline, calling
\* it again yields the same status.
C27_UpdateIdempotent ==
    [][(Quiet /\ Quiet' /\ steps' = steps)
          => /\ \A k \in 1..steps :
                    step_status[k] = JobUpdatedStatus(k)
                        => step_status'[k] = JobUpdatedStatus(k)'
             /\ (status = SteppedJobUpdatedStatus(step_status)
                    => status' = SteppedJobUpdatedStatus(step_status)')]_vars

\* C28: kill() called on a pipeline that is terminated or killed, with the
\* statuses of the steps and of the pipeline up to date, leaves them so:
\* update_status after the call changes no status.
C28_KillNoOp ==
    [][(mpc = "idle" /\ mpc' = "kill_join" /\ status \in {terminated, killed}
            /\ StatusUpdated)
          => StatusUpdated']_vars

\* C23: when the teardown of the registry returns, every thread of the
\* pipeline it holds is over and no child process of the pipeline runs.
C23_Teardown ==
    mpc = "closed"
        => \A w \in Wid : ~is_alive(w) /\ workers[w].child # "running"

\* the names that the calls of create_dir returned
Returned == {created[i] : i \in 1..Len(created)}

\* C29: a call of create_dir on a directory of integer-named entries makes
\* and returns a directory that did not exist, numbered one more than the
\* greatest entry, or 0 in an empty or new directory; the calls made on a
\* directory that was empty or new have returned 0, 1, 2, ... in order.
C29_CreateDir ==
    [][created' # created =>
          LET r == created'[Len(created')] IN
          /\ r # NoName
          /\ r \notin listdir
          /\ listdir' = listdir \cup {r}
          /\ \A f \in listdir : int(r) > int(f)
          /\ listdir = {} => r = <<0>>
          /\ listdir # {} => \E f \in listdir : int(r) = int(f) + 1
          /\ (listdir' = Returned') =>
                \A i \in 1..Len(created') : created'[i] = str(i - 1)]_vars

\* three calls on a new path, and the directory holds what they returned
C29_Witness ==
    Len(created) = 3 /\ listdir = Returned /\ created[3] = <<2>>

\* C30: the payload that a step publishes after a successful run is the set
\* of the paths of the entries of its working directory whose whole name
\* matches data_regex.
C30_OutputContract ==
    output # {NoName}
        => output = {join(e) : e \in {f \in odir : fullmatch(data_regex, f)}}

\* C21: a job constructed with a registry of the caller is in that registry
\* and not in the default one; a job constructed with no registry is in the
\* default registry; a Step is in the registry of the steps of its parent and
\* in no other registry
InRegistry(j, o) == j \in Range(registries[o])

C21_Membership ==
    \A j \in 1..Len(jobs) :
        LET g == jobs[j].given IN
        /\ jobs[j].kind # "Step" /\ g = 0 =>
               jm_instance # 0 /\ InRegistry(j, jm_instance)
        /\ jobs[j].kind # "Step" /\ g # 0 /\ g # jm_instance =>
               /\ InRegistry(j, g)
               /\ jm_instance # 0 => ~InRegistry(j, jm_instance)
        /\ jobs[j].kind = "Step" =>
               \A o \in 1..Len(registries) :
                   InRegistry(j, o) <=> o = jobs[jobs[j].parent].steps

\* C21 happens: a Step in the registry of its pipeline, which is in the
\* default registry, beside a job in an empty registry of the caller
C21_Witness ==
    /\ Len(jobs) = 3
    /\ \E j \in 1..3 : jobs[j].kind = "Step" /\ jobs[jobs[j].parent].given = 0
    /\ \E j \in 1..3 : /\ jobs[j].kind = "Job" /\ jobs[j].given # 0
                       /\ jobs[j].given # jm_instance
                       /\ registries[jobs[j].given] = <<j>>

\* C22: every call of ContextManager() returns one object, before and after
\* close(), and every call of JobManager() or manager() returns one object
Family(f) == IF f = "ContextManager" THEN 1 ELSE IF f = "close" THEN 0 ELSE 2

Settled(j) ==
    history[j].joined /\ ~history[j].concurrent /\ job[j].task # 0

LiveWorkers(k) == {w \in Wid : workers[w].stage = k /\ is_alive(w)}

C31_OneWorkerPerStage ==
    \A k \in 1..steps : Cardinality(LiveWorkers(k)) <= 1

\* C32: from the statement of Job.start that sets the status of a step to
\* running until the thread that this start launches returns, the status of
\* the step is running, whatever update_status calls interleave
Starting(k) == mpc \in {"st_s2", "st_s3"} /\ mi = k

C32_RunningWhileStarted ==
    \A k \in 1..steps :
        (Starting(k) \/ (task[k] # 0 /\ is_alive(task[k])))
            => step_status[k] = running

\* C33: inside SteppedJob.start from step first, the kill event is cleared
\* before anything else; clear_input_data is then called on the steps after
\* first, from the last one down, and on no other step; and the threads are
\* started only after all these calls, for the steps first, first + 1, ... in
\* this order
LaunchedInRun ==
    {workers[w].stage : w \in {v \in Wid : workers[v].stage # 0
                                          /\ workers[v].run = runs}}

CallerStep == mpc' # mpc \/ mi' # mi

C33_StartOrder ==
    [][/\ (mpc = "st_reset" /\ mpc' = "st_clear") =>
              kill_event' = FALSE /\ mi' = steps /\ LaunchedInRun' = {}
       /\ (mpc \in {"st_clear", "st_cget"} /\ CallerStep) =>
              /\ LaunchedInRun = {}
              /\ mpc' # "st_s1" => mi > first /\ mi' \in {mi, mi - 1}
              /\ mpc' = "st_s1" => mi = first /\ mi' = first
       /\ (mpc = "st_s3" /\ CallerStep) =>
              /\ LaunchedInRun = first..(mi - 1)
              /\ LaunchedInRun' = first..mi]_vars

\* C33 happens: a start from step 2 of 3 has taken the payload left in the
\* queue between steps 2 and 3 and has then started steps 2 and 3
C33_Witness ==
    /\ steps = 3 /\ first = 2 /\ runs = 2
    /\ mpc = "idle" /\ raised = NoError
    /\ LaunchedInRun = {2, 3}
    /\ \A w \in Wid : workers[w].run = runs => workers[w].pc = "get"
    /\ queue[2] = <<>>
    /\ queue[1] # <<>>

\* C34: a worker that found the kill event set after taking its input, and so
\* spawned no child, puts Kill on its outbound queue and does not set the
\* terminated event of its step
SkippedSpawn(w) == workers[w].pc = "chk2" /\ workers[w].child = "none"

C34_KillBeforeSpawn ==
    [][\A w \in Wid :
          (SkippedSpawn(w) /\ workers'[w] # workers[w]) =>
              LET k == workers[w].stage IN
              /\ queue'[k] = Append(queue[k], Kill)
              /\ terminated_event'[k] = terminated_event[k]]_vars

\* C35: every step has the kill event of its pipeline, no two pipelines or
\* single Jobs have the same event, and a kill() or a failing child of one
\* job sets no event of a job outside its pipeline
Top(j) == IF j = 0 THEN 0 ELSE IF jobs[j].kind = "Step" THEN jobs[j].parent ELSE j

EventSet(j, S) == jobs[j].event \in S

C35_Isolation ==
    [][/\ \A j \in 1..Len(jobs') :
              jobs'[j].kind = "Step" => jobs'[j].event = jobs'[jobs'[j].parent].event
       /\ \A i, j \in 1..Len(jobs') :
              (i # j /\ jobs'[i].kind # "Step" /\ jobs'[j].kind # "Step")
                  => jobs'[i].event # jobs'[j].event
       /\ (acted' # 0 /\ kill_set' # kill_set) =>
              \A i \in 1..Len(jobs) :
                  Top(i) # Top(acted') =>
                      (EventSet(i, kill_set') <=> EventSet(i, kill_set))]_vars

\* C35 happens: the child of a step failed, the event of its pipeline is set
\* and the event of a single Job beside it is not
C35_Witness ==
    /\ Len(jobs) = 3
    /\ acted # 0 /\ jobs[acted].kind = "Step"
    /\ EventSet(Top(acted), kill_set)
    /\ \E i \in 1..3 : jobs[i].kind = "Job" /\ ~EventSet(i, kill_set)

\* C36: whenever the status of the pipeline is terminated or killed, no
\* worker thread of the pipeline is alive
C36_AbsorbingQuiescent ==
    status \in {terminated, killed} => \A w \in Wid : ~is_alive(w)

\* C37: the thread of the Watchdog runs until stop() is called and no update
\* pass raises, also when the pass meets a job that is registered and whose
\* constructor is not over
C37_MonitorRobust ==
    /\ monitor.pc # "dead"
    /\ monitor.pc = "exit" => stop_event

\* C38: at the end of each update pass every job passed to watch() is in the
\* queue of the Watchdog exactly once, and the pass has called update_status
\* once on every job whose watch() had returned when it began
Count(q, j) == Cardinality({i \in 1..Len(q) : q[i] = j})

PassEnds ==
    /\ monitor.pc \in {"drain", "update", "reput"}
    /\ monitor'.pc \in {"loop", "exit", "dead"}

C38_NoJobLost ==
    [][PassEnds =>
          /\ \A j \in Watched : built[j] # "no" => Count(job_queue', j) = 1
          /\ \A j \in pass.before : pass'.calls[j] = 1]_vars

====
